---- MODULE Spec2Model ----
(***************************************************************************)
(* Model of the matcher and sink of the travel-report loader               *)
(* (src/upload.py, class SupabaseUploader) together with the three tables  *)
(* of the backing store it reads and writes.                               *)
(*                                                                         *)
(* Text is modelled as a sequence of atoms: a digit, a single space, a     *)
(* letter or a whole word.  Concatenation, stripping, zero padding and     *)
(* integer parsing are computed on these sequences.                        *)
(***************************************************************************)
EXTENDS Integers, Sequences, FiniteSets, TLC

(***************************************************************************)
(* Bounds of the model                                                     *)
(***************************************************************************)
\* longest batch (DataFrame) handed to process_records / upload_data
MaxBatch == 2
\* largest value next_staff_num may reach
MaxStaffNum == 4
\* most rows of house_travel_reports
MaxReports == 3
\* most rows of member_staff
MaxStaffRows == 3
\* most rows of a member_staff table of any content
MaxLoadRows == 2

(***************************************************************************)
(* Text helpers                                                            *)
(***************************************************************************)
Digits == <<"0", "1", "2", "3", "4", "5", "6", "7", "8", "9">>

IsDigit(c) == \E i \in 1..10 : Digits[i] = c

DigitVal(c) == (CHOOSE i \in 1..10 : Digits[i] = c) - 1

\* pandas NaN in a text cell
NaN == <<"<NaN>">>

\* Python None / JSON null in a text cell
None == <<"<None>">>

\* pandas NaN / Python None / JSON null in a numeric cell
Null == -1

\* pd.isna on a text cell
isna(s) == s \in {NaN, None}

\* Python truth value of a text cell: '' and None are false, NaN (a float)
\* is true
Truthy(s) == s # <<>> /\ s # None

\* str.strip(): drop leading and trailing whitespace
RECURSIVE LStrip(_)
LStrip(s) == IF s # <<>> /\ Head(s) = " " THEN LStrip(Tail(s)) ELSE s

RECURSIVE RStrip(_)
RStrip(s) ==
    IF s # <<>> /\ s[Len(s)] = " " THEN RStrip(SubSeq(s, 1, Len(s) - 1)) ELSE s

strip(s) == RStrip(LStrip(s))

\* str.isdigit(): non-empty and all digits
isdigit(s) == s # <<>> /\ \A i \in 1..Len(s) : IsDigit(s[i])

\* value of a string of digits
RECURSIVE DigitsVal(_)
DigitsVal(s) ==
    IF s = <<>> THEN 0
    ELSE 10 * DigitsVal(SubSeq(s, 1, Len(s) - 1)) + DigitVal(s[Len(s)])

\* int(s): surrounding whitespace and one sign are accepted; anything else
\* raises ValueError (ok = FALSE)
int(s) ==
    LET t == strip(s)
        signed == t # <<>> /\ Head(t) \in {"+", "-"}
        d == IF signed THEN Tail(t) ELSE t
    IN  IF isdigit(d)
        THEN [ok |-> TRUE,
              val |-> IF signed /\ Head(t) = "-" THEN 0 - DigitsVal(d)
                      ELSE DigitsVal(d)]
        ELSE [ok |-> FALSE, val |-> 0]

\* str(n) for a natural number
RECURSIVE str(_)
str(n) ==
    IF n < 10 THEN <<Digits[n + 1]>>
    ELSE str(n \div 10) \o <<Digits[(n % 10) + 1]>>

\* f"{n:04d}": decimal, zero-padded to a minimum width of 4
RECURSIVE ZeroPad(_, _)
ZeroPad(s, w) == IF Len(s) >= w THEN s ELSE ZeroPad(<<"0">> \o s, w)

Format04d(n) == ZeroPad(str(n), 4)

startswith(s, p) == Len(s) >= Len(p) /\ SubSeq(s, 1, Len(p)) = p

staff == <<"s", "t", "a", "f", "f">>

\* f"staff{n:04d}"
StaffIdOf(n) == staff \o Format04d(n)

badvalue == <<"badvalue">>

Max(a, b) == IF a >= b THEN a ELSE b

\* a Python dict as a function; d[k] = v adds or replaces
DictSet(d, k, v) == [x \in DOMAIN d \cup {k} |-> IF x = k THEN v ELSE d[x]]

EmptyDict == [x \in {} |-> 0]

(***************************************************************************)
(* Names, years and the records a collector can hand over                  *)
(***************************************************************************)
JaneDoe == <<"Jane", " ", "Doe">>
JohnUnknown == <<"John", " ", "Unknown">>
AnnLee == <<"Ann", " ", "Lee">>
BobRay == <<"Bob", " ", "Ray">>

\* datetime.datetime.now().year
current_year == 2025

Y2025 == <<"2", "0", "2", "5">>
Y2020 == <<"2", "0", "2", "0">>

\* datetime.date.today().isoformat()
today == <<"today">>

\* one row of the travel-report DataFrame after the collector's reshaping;
\* f is the pair (filer_first_name, filer_last_name)
Row(m, y, f) ==
    [DocID |-> <<"d1">>, docid |-> <<"d1">>, report_year |-> y,
     filer_first_name |-> f[1], filer_last_name |-> f[2],
     member_full_name |-> m, internal_unique_id |-> Null]

Ann_Lee == <<<<"Ann">>, <<"Lee">>>>
Bob_Ray == <<<<"Bob">>, <<"Ray">>>>
Jane_Doe == <<<<"Jane">>, <<"Doe">>>>
John_Unknown == <<<<"John">>, <<"Unknown">>>>
NoFiler == <<<<>>, <<>>>>
\* the element has no FilerName while others have: the cells are NaN
Absent == <<NaN, NaN>>
\* FilerName 'Cher': split(' ', 1) leaves the last name empty
Cher == <<<<"Cher">>, <<>>>>

\* the filings a collector can hand over
Records ==
    { Row(JaneDoe, Y2025, Ann_Lee),
      Row(JaneDoe, Y2020, Bob_Ray),
      Row(JaneDoe, Y2025, Jane_Doe),
      Row(JaneDoe, Y2020, NoFiler),
      Row(JaneDoe, Y2025, Cher),
      Row(JohnUnknown, Y2025, Ann_Lee),
      Row(JohnUnknown, Y2020, Ann_Lee),
      Row(JohnUnknown, Y2025, John_Unknown),
      Row(badvalue, Y2025, Ann_Lee),
      Row(NaN, Y2025, Bob_Ray) }

RECURSIVE SeqsUpTo(_, _)
SeqsUpTo(S, n) ==
    IF n = 0 THEN {<<>>}
    ELSE LET P == SeqsUpTo(S, n - 1)
         IN  P \cup { Append(p, x) : p \in {q \in P : Len(q) = n - 1}, x \in S }

\* the DataFrames handed to process_records
Batches == SeqsUpTo(Records, MaxBatch)

\* the DataFrames handed to upload_data: a row of each classification
SinkRecords ==
    { Row(JaneDoe, Y2025, Ann_Lee),
      Row(JohnUnknown, Y2025, Ann_Lee),
      Row(JohnUnknown, Y2020, Ann_Lee),
      Row(NaN, Y2025, Bob_Ray),
      Row(JaneDoe, Y2025, Cher),
      Row(JaneDoe, Y2025, Absent) }

SinkBatches == SeqsUpTo(SinkRecords, MaxBatch)

\* the member_details table as the roster collector left it
Roster ==
    << [member_full_name |-> JaneDoe, internal_unique_id |-> 7],
       [member_full_name |-> <<"Zed", " ", "Zero">>, internal_unique_id |-> 0],
       [member_full_name |-> <<>>, internal_unique_id |-> 9] >>

(***************************************************************************)
(* State                                                                   *)
(***************************************************************************)
VARIABLES
    member_details,        \* table member_details of the store
    member_staff,          \* table member_staff of the store
    house_travel_reports,  \* table house_travel_reports of the store
    member_id_mapping,     \* self.member_id_mapping
    staff_id_mapping,      \* self.staff_id_mapping
    next_staff_num,        \* self.next_staff_num
    session_ids,           \* staff ids allocated by this uploader, in order
    op,                    \* the call whose frame is shown, or "idle"
    df,                    \* argument of the call
    result_df,             \* result_df before the skipped rows are dropped
    records_to_skip,       \* local records_to_skip
    staff_to_insert,       \* local staff_to_insert
    returned,              \* value returned by process_records
    records,               \* local records of upload_data
    submitted,             \* records passed to insert on the report table
    io,                    \* what the store answered to the calls made
    credentials,           \* SUPABASE_URL and SUPABASE_KEY are both set
    pc,                    \* position of run_pipeline, "none" outside a run
    upload,                \* argument upload of run_pipeline
    xml,                   \* the Travel elements of each year's zip file
    fetched,               \* how the download of each year's zip file went
    data,                  \* self.data of the collector
    csv,                   \* rows of travel_reports.csv
    log,                   \* the last message run_pipeline printed
    raw_name,              \* text handed to normalize_text
    all_members            \* self.all_members of the links collector

store == <<member_details, member_staff, house_travel_reports>>
uploader == <<member_id_mapping, staff_id_mapping, next_staff_num, session_ids>>
frame == <<op, df, result_df, records_to_skip, staff_to_insert, returned,
           records, submitted, io>>
pipeline == <<credentials, pc, upload, xml, fetched, data, csv, log>>
links == <<raw_name, all_members>>
vars == <<store, uploader, frame, pipeline, links>>

\* no run of run_pipeline is shown; the credentials are set
NoPipeline ==
    /\ credentials = TRUE
    /\ pc = "none"
    /\ upload = FALSE
    /\ xml = <<>>
    /\ fetched = <<>>
    /\ data = <<>>
    /\ csv = <<>>
    /\ log = ""

\* the links collector has not run
NoLinks ==
    /\ raw_name = <<>>
    /\ all_members = <<>>

NoFrame ==
    /\ df = <<>>
    /\ result_df = <<>>
    /\ records_to_skip = {}
    /\ staff_to_insert = <<>>
    /\ returned = <<>>
    /\ records = <<>>
    /\ submitted = <<>>
    /\ io = EmptyDict

(***************************************************************************)
(* SupabaseUploader.__init__, load_member_details, load_staff_details      *)
(***************************************************************************)
\* the loop of load_member_details over response.data
RECURSIVE LoadMembers(_, _)
LoadMembers(rows, m) ==
    IF rows = <<>> THEN m
    ELSE LET record == Head(rows)
             name == record.member_full_name
             id_val == record.internal_unique_id
         IN  LoadMembers(Tail(rows),
                 IF Truthy(name) /\ id_val # 0 /\ id_val # Null
                 THEN DictSet(m, name, id_val) ELSE m)

\* LoadStaff with a slip: next_staff_num is not raised by the stored ids
RECURSIVE LoadStaff_next_not_raised(_, _)
LoadStaff_next_not_raised(rows, s) ==
    IF rows = <<>> THEN s
    ELSE LET record == Head(rows)
             name == record.staff_full_name
             id_val == record.unique_staff_id
         IN  LoadStaff_next_not_raised(Tail(rows),
                 IF Truthy(name) /\ Truthy(id_val)
                 THEN [map |-> DictSet(s.map, name, id_val), next |-> s.next]
                 ELSE s)

\* the loop of load_staff_details over response.data;
\* s = [map |-> staff_id_mapping, next |-> next_staff_num]
RECURSIVE LoadStaff(_, _)
LoadStaff(rows, s) ==
    IF rows = <<>> THEN s
    ELSE LET record == Head(rows)
             name == record.staff_full_name
             id_val == record.unique_staff_id
             num == int(SubSeq(id_val, 6, Len(id_val)))
         IN  LoadStaff(Tail(rows),
                 IF Truthy(name) /\ Truthy(id_val)
                 THEN [map |-> DictSet(s.map, name, id_val),
                       next |-> IF startswith(id_val, staff) /\ num.ok
                                THEN Max(s.next, num.val + 1) ELSE s.next]
                 ELSE s)

\* MembersAfterLoad with a slip: the rows are there although the select
\* raised
MembersAfterLoad_rows_on_failure(m, ok) == LoadMembers(member_details, m)

\* state of the uploader after load_member_details; ok = FALSE: the select
\* raised and the except clause swallowed it
MembersAfterLoad(m, ok) == IF ok THEN LoadMembers(member_details, m) ELSE m

StaffAfterLoad(s, ok) == IF ok THEN LoadStaff(member_staff, s) ELSE s

load_member_details(ok) ==
    /\ op = "idle"
    /\ op' = "load_member_details"
    /\ io' = [select_members |-> ok]
    /\ member_id_mapping' = MembersAfterLoad(member_id_mapping, ok)
    /\ UNCHANGED <<store, staff_id_mapping, next_staff_num, session_ids,
                   df, result_df, records_to_skip, staff_to_insert, returned,
                   records, submitted, pipeline, links>>

load_staff_details(ok) ==
    /\ op = "idle"
    /\ op' = "load_staff_details"
    /\ io' = [select_staff |-> ok]
    /\ LET s == StaffAfterLoad([map |-> staff_id_mapping,
                                next |-> next_staff_num], ok)
       IN  /\ staff_id_mapping' = s.map
           /\ next_staff_num' = s.next
    /\ UNCHANGED <<store, member_id_mapping, session_ids,
                   df, result_df, records_to_skip, staff_to_insert, returned,
                   records, submitted, pipeline, links>>

(***************************************************************************)
(* SupabaseUploader.process_records                                        *)
(***************************************************************************)
\* the dictionary appended to staff_to_insert
StaffEntry(staff_id, filer_first, filer_last, filer_full_name, member_name, member_id, report_year) ==
    [unique_staff_id |-> staff_id,
     staff_first |-> filer_first,
     staff_last |-> filer_last,
     staff_full_name |-> filer_full_name,
     member_name |-> member_name,
     member_id |-> member_id,
     year |-> IF isdigit(report_year) THEN int(report_year).val ELSE Null,
     date_created |-> today]

\* NewStaff with a slip: next_staff_num is not incremented
NewStaff_no_increment(st, filer_first, filer_last, filer_full_name, member_name, member_id, report_year) ==
    LET staff_id == StaffIdOf(st.next)
    IN  [st EXCEPT
            !.map = DictSet(st.map, filer_full_name, staff_id),
            !.ids = Append(st.ids, staff_id),
            !.queue = Append(st.queue,
                          StaffEntry(staff_id, filer_first, filer_last,
                                     filer_full_name, member_name, member_id,
                                     report_year))]

\* "create a new ID" and "add to the list of staff to insert"
NewStaff(st, filer_first, filer_last, filer_full_name, member_name, member_id, report_year) ==
    LET staff_id == StaffIdOf(st.next)
    IN  [st EXCEPT
            !.map = DictSet(st.map, filer_full_name, staff_id),
            !.next = st.next + 1,
            !.ids = Append(st.ids, staff_id),
            !.queue = Append(st.queue,
                          StaffEntry(staff_id, filer_first, filer_last,
                                     filer_full_name, member_name, member_id,
                                     report_year))]

\* "if filer_first and filer_last and not pd.isna(...)"
HasFiler(filer_first, filer_last) ==
    /\ Truthy(filer_first) /\ Truthy(filer_last)
    /\ ~isna(filer_first) /\ ~isna(filer_last)

\* MemberFound with a slip: a found member of an earlier year is skipped
MemberFound_skips_earlier_years(st, index, members) ==
    LET row == st.df[index]
        member_name == row.member_full_name
        report_year == strip(row.report_year)
        filer_first == row.filer_first_name
        filer_last == row.filer_last_name
        member_id == members[member_name]
        filer_full_name == strip(filer_first \o <<" ">> \o filer_last)
        st1 == [st EXCEPT !.df[index].internal_unique_id = member_id]
    IN  IF report_year # str(current_year)
        THEN [st EXCEPT !.skip = st.skip \cup {index}]
        ELSE IF /\ HasFiler(filer_first, filer_last)
                /\ filer_full_name # member_name
                /\ filer_full_name \notin DOMAIN st.map
             THEN NewStaff(st1, filer_first, filer_last, filer_full_name,
                           member_name, member_id, report_year)
             ELSE st1

\* branch "member exists in our mapping"
MemberFound(st, index, members) ==
    LET row == st.df[index]
        member_name == row.member_full_name
        report_year == strip(row.report_year)
        filer_first == row.filer_first_name
        filer_last == row.filer_last_name
        member_id == members[member_name]
        filer_full_name == strip(filer_first \o <<" ">> \o filer_last)
        st1 == [st EXCEPT !.df[index].internal_unique_id = member_id]
    IN  IF /\ HasFiler(filer_first, filer_last)
           /\ filer_full_name # member_name
           /\ filer_full_name \notin DOMAIN st.map
        THEN NewStaff(st1, filer_first, filer_last, filer_full_name,
                      member_name, member_id, report_year)
        ELSE st1

\* MemberNotFound with a slip: the unknown member of the current year is
\* skipped, as the docstring has it
MemberNotFound_skips_current_year(st, index) ==
    [st EXCEPT !.skip = st.skip \cup {index}]

\* MemberNotFound with a slip: the unknown member of an earlier year is kept
\* with the id 0
MemberNotFound_keeps_earlier_years(st, index) ==
    LET row == st.df[index]
        report_year == strip(row.report_year)
        filer_first == row.filer_first_name
        filer_last == row.filer_last_name
        filer_full_name == strip(filer_first \o <<" ">> \o filer_last)
        st1 == [st EXCEPT !.df[index].internal_unique_id = 0]
    IN  IF /\ report_year = str(current_year)
           /\ HasFiler(filer_first, filer_last)
           /\ filer_full_name \notin DOMAIN st.map
        THEN NewStaff(st1, filer_first, filer_last, filer_full_name,
                      None, Null, report_year)
        ELSE st1

\* MemberNotFound with a slip: the filer is not looked up in staff_id_mapping
MemberNotFound_no_staff_lookup(st, index) ==
    LET row == st.df[index]
        report_year == strip(row.report_year)
        filer_first == row.filer_first_name
        filer_last == row.filer_last_name
        filer_full_name == strip(filer_first \o <<" ">> \o filer_last)
        st1 == [st EXCEPT !.df[index].internal_unique_id = 0]
    IN  IF report_year = str(current_year)
        THEN IF HasFiler(filer_first, filer_last)
             THEN NewStaff(st1, filer_first, filer_last, filer_full_name,
                           None, Null, report_year)
             ELSE st1
        ELSE [st EXCEPT !.skip = st.skip \cup {index}]

\* MemberNotFound with a slip: the entry of an unknown member carries the id
\* 0 the record got
MemberNotFound_member_id_zero(st, index) ==
    LET row == st.df[index]
        report_year == strip(row.report_year)
        filer_first == row.filer_first_name
        filer_last == row.filer_last_name
        filer_full_name == strip(filer_first \o <<" ">> \o filer_last)
        st1 == [st EXCEPT !.df[index].internal_unique_id = 0]
    IN  IF report_year = str(current_year)
        THEN IF /\ HasFiler(filer_first, filer_last)
                /\ filer_full_name \notin DOMAIN st.map
             THEN NewStaff(st1, filer_first, filer_last, filer_full_name,
                           None, 0, report_year)
             ELSE st1
        ELSE [st EXCEPT !.skip = st.skip \cup {index}]

\* branch "member not found"
MemberNotFound(st, index) ==
    LET row == st.df[index]
        report_year == strip(row.report_year)
        filer_first == row.filer_first_name
        filer_last == row.filer_last_name
        filer_full_name == strip(filer_first \o <<" ">> \o filer_last)
        st1 == [st EXCEPT !.df[index].internal_unique_id = 0]
    IN  IF report_year = str(current_year)
        THEN IF /\ HasFiler(filer_first, filer_last)
                /\ filer_full_name \notin DOMAIN st.map
             THEN NewStaff(st1, filer_first, filer_last, filer_full_name,
                           None, Null, report_year)
             ELSE st1
        ELSE [st EXCEPT !.skip = st.skip \cup {index}]

\* ProcessRow with a slip: only a missing name is invalid, 'badvalue' is
\* looked up like a name
ProcessRow_badvalue_looked_up(st, index, members) ==
    LET member_name == st.df[index].member_full_name
    IN  IF isna(member_name)
        THEN [st EXCEPT !.skip = st.skip \cup {index}]
        ELSE IF member_name \in DOMAIN members
             THEN MemberFound(st, index, members)
             ELSE MemberNotFound(st, index)

\* body of the loop "for index, row in result_df.iterrows()"
ProcessRow(st, index, members) ==
    LET member_name == st.df[index].member_full_name
    IN  IF isna(member_name) \/ member_name = badvalue
        THEN [st EXCEPT !.skip = st.skip \cup {index}]
        ELSE IF member_name \in DOMAIN members
             THEN MemberFound(st, index, members)
             ELSE MemberNotFound(st, index)

RECURSIVE ProcessRows(_, _, _)
ProcessRows(st, index, members) ==
    IF index > Len(st.df) THEN st
    ELSE ProcessRows(ProcessRow(st, index, members), index + 1, members)

\* Drop with a slip: the result of drop() is thrown away
Drop_result_unused(rows, skip, index) == rows

\* result_df.drop(records_to_skip).reset_index(drop=True)
RECURSIVE Drop(_, _, _)
Drop(rows, skip, index) ==
    IF index > Len(rows) THEN <<>>
    ELSE (IF index \in skip THEN <<>> ELSE <<rows[index]>>)
         \o Drop(rows, skip, index + 1)

\* the member_staff table an earlier uploader leaves behind when it starts
\* on an empty table, processes d and every call to the store succeeds
TableAfter(d) ==
    ProcessRows([df |-> d, skip |-> {}, map |-> EmptyDict, next |-> 1,
                 ids |-> <<>>, queue |-> <<>>], 1,
                LoadMembers(Roster, EmptyDict)).queue

\* the batches of the earlier runs
PriorBatches ==
    { <<>>,
      <<Row(JaneDoe, Y2025, Ann_Lee)>>,
      <<Row(JaneDoe, Y2025, Ann_Lee), Row(JaneDoe, Y2020, Bob_Ray)>> }

PriorStaffTables == { TableAfter(d) : d \in PriorBatches }

\* a new SupabaseUploader has been constructed; the store holds what the
\* collectors and earlier uploaders wrote
Init ==
    /\ member_details = Roster
    /\ member_staff \in PriorStaffTables
    /\ house_travel_reports = <<>>
    /\ member_id_mapping = EmptyDict
    /\ staff_id_mapping = EmptyDict
    /\ next_staff_num = 1
    /\ session_ids = <<>>
    /\ op = "idle"
    /\ NoFrame
    /\ NoPipeline
    /\ NoLinks

\* the tables process_records works with: loaded when still empty
MembersUsed(ok) ==
    IF member_id_mapping = EmptyDict
    THEN MembersAfterLoad(member_id_mapping, ok) ELSE member_id_mapping

StaffUsed(ok) ==
    IF staff_id_mapping = EmptyDict
    THEN StaffAfterLoad([map |-> staff_id_mapping, next |-> next_staff_num], ok)
    ELSE [map |-> staff_id_mapping, next |-> next_staff_num]

\* Matcher with a slip: the unknown member of an admitted record is put
\* into member_id_mapping with the id 0 it got
Matcher_remembers_unknown(d, a) ==
    \E members \in {MembersUsed(a.select_members)} :
    \E s \in {StaffUsed(a.select_staff)} :
    \E st \in {ProcessRows([df |-> d, skip |-> {}, map |-> s.map,
                            next |-> s.next, ids |-> session_ids,
                            queue |-> <<>>], 1, members)} :
        /\ st.next <= MaxStaffNum
        /\ st.queue = <<>> => a.insert_staff
        /\ df' = d
        /\ member_id_mapping' =
              [n \in DOMAIN members
                       \cup {st.df[i].member_full_name :
                                i \in (1..Len(d)) \ st.skip} |->
                  IF n \in DOMAIN members THEN members[n] ELSE 0]
        /\ staff_id_mapping' = st.map
        /\ next_staff_num' = st.next
        /\ session_ids' = st.ids
        /\ staff_to_insert' = st.queue
        /\ records_to_skip' = st.skip
        /\ result_df' = st.df
        /\ returned' = Drop(st.df, st.skip, 1)
        /\ member_staff' = IF st.queue # <<>> /\ a.insert_staff
                           THEN member_staff \o st.queue ELSE member_staff
        /\ Len(member_staff') <= MaxStaffRows

\* the whole of process_records on DataFrame d; a names the answers of the
\* store: a.select_members, a.select_staff, a.insert_staff
Matcher(d, a) ==
    \E members \in {MembersUsed(a.select_members)} :
    \E s \in {StaffUsed(a.select_staff)} :
    \E st \in {ProcessRows([df |-> d, skip |-> {}, map |-> s.map,
                            next |-> s.next, ids |-> session_ids,
                            queue |-> <<>>], 1, members)} :
        /\ st.next <= MaxStaffNum
        /\ st.queue = <<>> => a.insert_staff
        /\ df' = d
        /\ member_id_mapping' = members
        /\ staff_id_mapping' = st.map
        /\ next_staff_num' = st.next
        /\ session_ids' = st.ids
        /\ staff_to_insert' = st.queue
        /\ records_to_skip' = st.skip
        /\ result_df' = st.df
        /\ returned' = Drop(st.df, st.skip, 1)
        /\ member_staff' = IF st.queue # <<>> /\ a.insert_staff
                           THEN member_staff \o st.queue ELSE member_staff
        /\ Len(member_staff') <= MaxStaffRows

\* the answers of the store that process_records can see in this state
MatcherAnswers(d) ==
    { a \in [select_members : BOOLEAN, select_staff : BOOLEAN,
             insert_staff : BOOLEAN] :
        /\ member_id_mapping # EmptyDict => a.select_members
        /\ staff_id_mapping # EmptyDict => a.select_staff }

process_records ==
    /\ op = "idle"
    /\ op' = "process_records"
    /\ \E d \in Batches : \E a \in MatcherAnswers(d) :
          Matcher(d, a) /\ io' = a
    /\ records' = <<>>
    /\ submitted' = <<>>
    /\ UNCHANGED <<member_details, house_travel_reports, pipeline, links>>

(***************************************************************************)
(* SupabaseUploader.map_fields, handle_nan_values, upload_data             *)
(***************************************************************************)
db_columns ==
    {"docid", "report_year", "filer_first_name", "filer_last_name",
     "member_first_name", "member_last_name", "member_full_name",
     "internal_unique_id", "member_state", "member_district", "filingtype",
     "destination_city", "destination_state", "departuredate", "returndate",
     "travel_sponsor", "date_scraped"}

\* map_fields with a slip: the schema lacks internal_unique_id
map_fields_without_id(r) ==
    [c \in DOMAIN r \cap (db_columns \ {"internal_unique_id"}) |-> r[c]]

\* the columns of a row that are in the schema
map_fields(r) == [c \in DOMAIN r \cap db_columns |-> r[c]]

\* columns pandas holds with a numeric dtype
numeric_columns == {"internal_unique_id"}

\* NaN becomes 'badvalue' in a text column and 0 in internal_unique_id
handle_nan_values(r) ==
    [c \in DOMAIN r |->
        IF c \in numeric_columns
        THEN IF c = "internal_unique_id" /\ r[c] = Null THEN 0 ELSE r[c]
        ELSE IF isna(r[c]) THEN badvalue ELSE r[c]]

\* df.head(max_records); max_records = 0 stands for None
Limit(rows, max_records) ==
    IF max_records # 0 /\ max_records < Len(rows)
    THEN SubSeq(rows, 1, max_records) ELSE rows

\* the record of the "minimal record upload for diagnosis"
minimal_record(recs) ==
    [report_year |-> recs[1].report_year, internal_unique_id |-> 0,
     date_scraped |-> today]

\* the loop "for i, record in enumerate(records)": the rows the store accepts
RECURSIVE OneByOne(_, _, _)
OneByOne(recs, accepted, i) ==
    IF i > Len(recs) THEN <<>>
    ELSE (IF i \in accepted THEN <<recs[i]>> ELSE <<>>)
         \o OneByOne(recs, accepted, i + 1)

\* Sink with a slip: the batch is written with an upsert on docid, a stored
\* row with the docid of a new record is replaced
Sink_upsert_on_docid(recs, a) ==
    LET Other(r) == \A i \in 1..Len(recs) : r.docid # recs[i].docid
    IN  /\ records' = recs
        /\ submitted' = recs
        /\ house_travel_reports' =
               IF recs # <<>> /\ a.insert_batch
               THEN SelectSeq(house_travel_reports, Other) \o recs
               ELSE house_travel_reports
        /\ Len(house_travel_reports') <= MaxReports

\* the part of upload_data after process_records; recs is the list records,
\* a names the answers of the store: a.insert_batch, a.stored, the number of
\* records it kept of a batch insert it reported as failed, a.insert_minimal
\* and a.accepted, the indexes of the records it takes one by one
Sink(recs, a) ==
    /\ records' = recs
    /\ IF recs = <<>>
       THEN \* "No data to upload after field mapping"
            /\ submitted' = <<>>
            /\ UNCHANGED house_travel_reports
       ELSE IF a.insert_batch
       THEN /\ submitted' = recs
            /\ house_travel_reports' = house_travel_reports \o recs
       ELSE IF ~a.insert_minimal
       THEN \* "Error in error handler"
            /\ submitted' = recs \o <<minimal_record(recs)>>
            /\ house_travel_reports' =
                   house_travel_reports \o SubSeq(recs, 1, a.stored)
       ELSE /\ submitted' = recs \o <<minimal_record(recs)>> \o recs
            /\ house_travel_reports' =
                   house_travel_reports \o SubSeq(recs, 1, a.stored)
                   \o <<minimal_record(recs)>>
                   \o OneByOne(recs, a.accepted, 1)
    /\ Len(house_travel_reports') <= MaxReports

\* the answers of the store to the inserts of upload_data on n records
SinkAnswers(n) ==
    { a \in [insert_batch : BOOLEAN, stored : 0..n,
             insert_minimal : BOOLEAN, accepted : SUBSET (1..n)] :
        /\ (n = 0 \/ a.insert_batch) => a.insert_minimal
        /\ a.insert_batch => a.stored = 0
        /\ ~(~a.insert_batch /\ a.insert_minimal) => a.accepted = {} }

\* [x \in DOMAIN f \cup DOMAIN g |-> ...]: the answers to both parts
Both(f, g) ==
    [x \in DOMAIN f \cup DOMAIN g |-> IF x \in DOMAIN f THEN f[x] ELSE g[x]]

Prepare(rows) ==
    [i \in 1..Len(rows) |-> handle_nan_values(map_fields(rows[i]))]

\* the body of upload_data on DataFrame d
Upload(d, max_records) ==
    \E a \in MatcherAnswers(d) :
        /\ Matcher(d, a)
        /\ \E recs \in {Limit(Prepare(returned'), max_records)} :
           \E b \in SinkAnswers(Len(recs)) :
              /\ Sink(recs, b)
              /\ io' = Both(a, b)

upload_data ==
    /\ op = "idle"
    /\ op' = "upload_data"
    /\ \E d \in SinkBatches : \E max_records \in {0, 1} :
          Upload(d, max_records)
    /\ UNCHANGED <<member_details, pipeline, links>>

\* the caller takes the result and the frame of the call is gone
Return ==
    /\ op # "idle"
    /\ op' = "idle"
    /\ df' = <<>>
    /\ result_df' = <<>>
    /\ records_to_skip' = {}
    /\ staff_to_insert' = <<>>
    /\ returned' = <<>>
    /\ records' = <<>>
    /\ submitted' = <<>>
    /\ io' = EmptyDict
    /\ UNCHANGED <<store, uploader, pipeline, links>>

Next ==
    \/ \E ok \in BOOLEAN : load_member_details(ok)
    \/ \E ok \in BOOLEAN : load_staff_details(ok)
    \/ process_records
    \/ Return

\* a session of the matcher: loads and process_records calls
Spec == Init /\ [][Next]_vars

SinkNext ==
    \/ upload_data
    \/ Return

\* runs of the pipeline: upload_data calls
SinkSpec == Init /\ [][SinkNext]_vars

MatchNext ==
    \/ process_records
    \/ Return

\* a session in which the tables are loaded by process_records only
MatchSpec == Init /\ [][MatchNext]_vars

\* rows of a member_staff table of any content, as the select of
\* load_staff_details returns them
AnyStaffRows ==
    { [staff_full_name |-> n, unique_staff_id |-> i] :
        n \in {AnnLee, BobRay, <<>>, None},
        i \in {StaffIdOf(1), StaffIdOf(3), staff \o <<"1", "2">>,
               staff \o <<"x">>, <<"t", "9">>, None} }

AnyStaffTables == SeqsUpTo(AnyStaffRows, MaxLoadRows)

\* a new uploader on a member_staff table of any content
LoadInit ==
    /\ member_details = Roster
    /\ member_staff \in AnyStaffTables
    /\ house_travel_reports = <<>>
    /\ member_id_mapping = EmptyDict
    /\ staff_id_mapping = EmptyDict
    /\ next_staff_num = 1
    /\ session_ids = <<>>
    /\ op = "idle"
    /\ NoFrame
    /\ NoPipeline
    /\ NoLinks

LoadNext ==
    \/ \E ok \in BOOLEAN : load_staff_details(ok)
    \/ Return

\* load_staff_details on every content of the table
LoadSpec == LoadInit /\ [][LoadNext]_vars

(***************************************************************************)
(* TravelReportsScraper._process_xml_file and run_pipeline                 *)
(***************************************************************************)
\* s.split(sep, 1): cut at the first sep, the whole of s when there is none
split(s, sep) ==
    IF \E i \in 1..Len(s) : s[i] = sep
    THEN LET i == CHOOSE j \in 1..Len(s) :
                      s[j] = sep /\ \A h \in 1..(j - 1) : s[h] # sep
         IN  <<SubSeq(s, 1, i - 1), SubSeq(s, i + 1, Len(s))>>
    ELSE <<s>>

\* "Process FilerName (FIRSTNAME LASTNAME format)": the pair
\* (filer_first_name, filer_last_name)
FilerFields(FilerName) ==
    LET names == split(FilerName, " ")
    IN  <<names[1], IF Len(names) > 1 THEN names[2] ELSE <<>>>>

\* MemberFields with a slip: the parts are not stripped
MemberFields_unstripped(MemberName) ==
    IF \E i \in 1..Len(MemberName) : MemberName[i] = ","
    THEN LET last_name == split(MemberName, ",")[1]
             first_name == split(MemberName, ",")[2]
         IN  [member_last_name |-> last_name,
              member_first_name |-> first_name,
              member_full_name |-> first_name \o <<" ">> \o last_name]
    ELSE [member_last_name |-> MemberName,
          member_first_name |-> <<>>,
          member_full_name |-> MemberName]

\* "Process MemberName (LASTNAME, FIRSTNAME format)"
MemberFields(MemberName) ==
    IF \E i \in 1..Len(MemberName) : MemberName[i] = ","
    THEN LET last_name == split(MemberName, ",")[1]
             first_name == split(MemberName, ",")[2]
         IN  [member_last_name |-> strip(last_name),
              member_first_name |-> strip(first_name),
              member_full_name |->
                  strip(first_name) \o <<" ">> \o strip(last_name)]
    ELSE [member_last_name |-> MemberName,
          member_first_name |-> <<>>,
          member_full_name |-> MemberName]

\* 'FX': the destination_state of foreign travel
FX == <<"FX">>

\* DestinationFields with a slip: the state is not stripped
DestinationFields_state_unstripped(Destination) ==
    IF \E i \in 1..Len(Destination) : Destination[i] = ","
    THEN LET city == split(Destination, ",")[1]
             state == split(Destination, ",")[2]
         IN  [destination_city |-> strip(city),
              destination_state |-> state]
    ELSE [destination_city |-> Destination,
          destination_state |-> FX]

\* "Process Destination (CITY, STATE format)"
DestinationFields(Destination) ==
    IF \E i \in 1..Len(Destination) : Destination[i] = ","
    THEN LET city == split(Destination, ",")[1]
             state == split(Destination, ",")[2]
         IN  [destination_city |-> strip(city),
              destination_state |-> strip(state)]
    ELSE [destination_city |-> Destination,
          destination_state |-> FX]

\* the travel_data dictionary made from one Travel element; every field
\* value is stripped when it is read
travel_data(elem) ==
    LET MemberName == strip(elem.MemberName)
        FilerName == strip(elem.FilerName)
        m == MemberFields(MemberName)
    IN  Both(Both(Row(m.member_full_name, strip(elem.Year),
                      FilerFields(FilerName)),
                  [member_first_name |-> m.member_first_name,
                   member_last_name |-> m.member_last_name]),
             DestinationFields(strip(elem.Destination)))

\* the loop "for record in root.findall('.//Travel')"
process_xml_file(elems) == [i \in 1..Len(elems) |-> travel_data(elems[i])]

Travel(m, f, y, d) ==
    [MemberName |-> m, FilerName |-> f, Year |-> y, Destination |-> d]

\* the Travel elements a disclosure file can hold
TravelElements ==
    { Travel(<<"Doe", ",", " ", "Jane">>, <<"Ann", " ", "Lee">>, Y2025,
             <<"Austin", ",", " ", "TX">>),
      Travel(<<" ", "Doe", " ", ",", " ", " ", "Jane", " ">>, <<"Cher">>,
             Y2025, <<"Paris">>),
      Travel(<<"Unknown", ",", "John">>, <<"John", " ", "Unknown">>, Y2025,
             <<" ", "Rome", " ", ",", " ", " ", "IT", " ">>),
      Travel(<<"Unknown", ",", " ", "John">>, <<"Ann", " ", "Lee">>, Y2020,
             <<"Lima", ",", " ", "FX">>),
      Travel(<<"Jane", " ", "Doe">>, <<"Bob", " ", "Ray">>, Y2020,
             <<"New", " ", "Delhi">>),
      Travel(<<"Doe", ",">>, <<"Ann", " ", " ", "Lee">>, Y2025,
             <<"Austin", ",", "TX", ",", " ", "USA">>),
      Travel(<<"Doe", ",", " ", "Jane", ",", " ", "Jr">>,
             <<"Bob", " ", "Ray">>, Y2025, <<",", "TX">>) }

XmlFiles == SeqsUpTo(TravelElements, MaxBatch)

\* number of year links of the disclosure page
MaxYears == 2

\* the ways the elements of file are spread over n zip files, one per year
\* link, in the order of the links
RECURSIVE Splits(_, _)
Splits(file, n) ==
    IF n = 1 THEN {<<file>>}
    ELSE UNION {{<<SubSeq(file, 1, c)>> \o rest :
                    rest \in Splits(SubSeq(file, c + 1, Len(file)), n - 1)} :
                c \in 0..Len(file)}

YearFiles == UNION {Splits(file, MaxYears) : file \in XmlFiles}

\* how the try block of one year link ends: normally, in requests.get or
\* raise_for_status, in zipfile.ZipFile, or in ET.parse
Outcomes == {"ok", "RequestException", "BadZipFile", "ParseError"}

\* run_pipeline is started; the environment may lack the credentials
PipelineInit ==
    /\ member_details = Roster
    /\ member_staff = <<>>
    /\ house_travel_reports = <<>>
    /\ member_id_mapping = EmptyDict
    /\ staff_id_mapping = EmptyDict
    /\ next_staff_num = 1
    /\ session_ids = <<>>
    /\ op = "idle"
    /\ NoFrame
    /\ credentials \in BOOLEAN
    /\ pc = "start"
    /\ upload \in BOOLEAN
    /\ xml \in YearFiles
    /\ fetched = <<>>
    /\ data = <<>>
    /\ csv = <<>>
    /\ log = ""
    /\ NoLinks

\* links = scraper.scrape_travel_report_links(); "if not links: return"
scrape_travel_report_links(found) ==
    /\ pc = "start"
    /\ pc' = IF found THEN "links" ELSE "complete"
    /\ log' = IF found THEN "Found links" ELSE "No travel report links found"
    /\ UNCHANGED <<store, uploader, frame, credentials, upload, xml, fetched,
                   data, csv, links>>

\* extract_data with a slip: the first failure ends the loop over the links
RECURSIVE extract_data_stops_at_failure(_, _)
extract_data_stops_at_failure(files, outcomes) ==
    IF files = <<>> \/ Head(outcomes) # "ok" THEN <<>>
    ELSE process_xml_file(Head(files))
            \o extract_data_stops_at_failure(Tail(files), Tail(outcomes))

\* the loop "for link_info in year_links": what self.data gets from the zip
\* files; a year whose try block ends in a handler adds nothing
RECURSIVE extract_data(_, _)
extract_data(files, outcomes) ==
    IF files = <<>> THEN <<>>
    ELSE (IF Head(outcomes) = "ok" THEN process_xml_file(Head(files))
          ELSE <<>>)
            \o extract_data(Tail(files), Tail(outcomes))

\* scraper.download_and_extract_data(links); outcomes[k] is how the try
\* block of link k ended
download_and_extract_data(outcomes) ==
    /\ pc = "links"
    /\ pc' = "extracted"
    /\ fetched' = outcomes
    /\ data' = extract_data(xml, outcomes)
    /\ log' = "Extracted records"
    /\ UNCHANGED <<store, uploader, frame, credentials, upload, xml, csv,
                   links>>

\* scraper.save_to_csv("travel_reports.csv")
save_to_csv ==
    /\ pc = "extracted"
    /\ pc' = "saved"
    /\ csv' = data
    /\ log' = "Saved data"
    /\ UNCHANGED <<store, uploader, frame, credentials, upload, xml, fetched,
                   data, links>>

\* ShouldUpload with a slip: the upload argument is not looked at
ShouldUpload_ignores_argument == data # <<>>

\* "if upload and not df.empty"
ShouldUpload == upload /\ data # <<>>

\* SupabaseUploader.__init__: raises ValueError without the credentials
Constructed == credentials

\* "if upload and not df.empty: try: uploader = SupabaseUploader();
\* result = uploader.upload_data(df) ... except Exception"
run_upload ==
    /\ pc = "saved"
    /\ pc' = "complete"
    /\ IF ShouldUpload
       THEN IF ~Constructed
            THEN /\ log' = "Error during Supabase upload"
                 /\ UNCHANGED <<store, uploader, frame>>
            ELSE /\ op' = "upload_data"
                 /\ Upload(data, 0)
                 /\ log' = IF records' # <<>> /\ io'.insert_batch
                           THEN "Upload complete!"
                           ELSE "Upload completed with errors"
                 /\ UNCHANGED member_details
       ELSE /\ log' = IF data = <<>> THEN "No data to upload"
                      ELSE "Skipping Supabase upload"
            /\ UNCHANGED <<store, uploader, frame>>
    /\ UNCHANGED <<credentials, upload, xml, fetched, data, csv, links>>

PipelineNext ==
    \/ \E found \in BOOLEAN : scrape_travel_report_links(found)
    \/ \E outcomes \in [1..Len(xml) -> Outcomes] :
          download_and_extract_data(outcomes)
    \/ save_to_csv
    \/ run_upload

\* one run of run_pipeline
PipelineSpec == PipelineInit /\ [][PipelineNext]_vars

(***************************************************************************)
(* normalize_text and its callers (src/member_links_scraper.py)            *)
(***************************************************************************)
\* longest text handed to normalize_text
MaxText == 3

\* special_chars_map; a character is named by an ASCII word
special_chars_map ==
    [c \in {"A_acute", "a_acute", "E_acute", "e_acute", "I_acute", "i_acute",
            "O_acute", "o_acute", "U_acute", "u_acute", "U_diaeresis",
            "u_diaeresis", "N_tilde", "n_tilde", "C_cedilla", "c_cedilla",
            "A_tilde"} |->
        CASE c = "A_acute" -> "A" [] c = "a_acute" -> "a"
          [] c = "E_acute" -> "E" [] c = "e_acute" -> "e"
          [] c = "I_acute" -> "I" [] c = "i_acute" -> "i"
          [] c = "O_acute" -> "O" [] c = "o_acute" -> "o"
          [] c = "U_acute" -> "U" [] c = "u_acute" -> "u"
          [] c = "U_diaeresis" -> "U" [] c = "u_diaeresis" -> "u"
          [] c = "N_tilde" -> "N" [] c = "n_tilde" -> "n"
          [] c = "C_cedilla" -> "C" [] c = "c_cedilla" -> "c"
          [] c = "A_tilde" -> "a"]

\* the ASCII characters of the model
Ascii ==
    {"a", "o", "f", "i", " ", "?"}
    \cup {special_chars_map[c] : c \in DOMAIN special_chars_map}

\* unicodedata.normalize('NFKD', c) of one character: o with diaeresis
\* decomposes canonically, the ligature fi and the no-break space by
\* compatibility; sharp s and the other characters of the model do not
NFKD(c) ==
    CASE c = "o_diaeresis" -> <<"o", "combining_diaeresis">>
      [] c = "fi_ligature" -> <<"f", "i">>
      [] c = "nbsp" -> <<" ">>
      [] OTHER -> <<c>>

\* unicodedata.combining(c) is not 0
combining(c) == c \in {"combining_acute", "combining_diaeresis"}

\* ''.join(parts)
RECURSIVE Join(_)
Join(parts) == IF parts = <<>> THEN <<>> ELSE Head(parts) \o Join(Tail(parts))

\* the passes of normalize_text over one character
MapSpecial(c) ==
    IF c \in DOMAIN special_chars_map THEN <<special_chars_map[c]>> ELSE <<c>>

DropCombining(c) == IF combining(c) THEN <<>> ELSE <<c>>

\* text.encode('ascii', 'replace').decode('ascii')
EncodeAscii(c) == IF c \in Ascii THEN <<c>> ELSE <<"?">>

\* text.replace('?', '')
DropQuestionMark(c) == IF c = "?" THEN <<>> ELSE <<c>>

\* the passes of normalize_text over the text
replace_special(text) == Join([i \in 1..Len(text) |-> MapSpecial(text[i])])

normalize_NFKD(text) == Join([i \in 1..Len(text) |-> NFKD(text[i])])

drop_combining(text) == Join([i \in 1..Len(text) |-> DropCombining(text[i])])

encode_ascii(text) == Join([i \in 1..Len(text) |-> EncodeAscii(text[i])])

drop_question_marks(text) ==
    Join([i \in 1..Len(text) |-> DropQuestionMark(text[i])])

\* normalize_text with a slip: the text is stripped before the question
\* marks are removed
normalize_text_strip_first(text) ==
    IF text = <<>> THEN text
    ELSE drop_question_marks(strip(encode_ascii(drop_combining(
             normalize_NFKD(replace_special(text))))))

normalize_text(text) ==
    IF text = <<>> THEN text
    ELSE strip(drop_question_marks(encode_ascii(drop_combining(
             normalize_NFKD(replace_special(text))))))

\* the characters of the texts of a Members page
Alphabet ==
    {"a", " ", "?", "e_acute", "A_tilde", "o_diaeresis", "sharp_s",
     "fi_ligature", "combining_acute", "nbsp"}

Texts == SeqsUpTo(Alphabet, MaxText)

\* the links collector is started on a page with one member element
LinksInit ==
    /\ member_details = Roster
    /\ member_staff = <<>>
    /\ house_travel_reports = <<>>
    /\ member_id_mapping = EmptyDict
    /\ staff_id_mapping = EmptyDict
    /\ next_staff_num = 1
    /\ session_ids = <<>>
    /\ op = "idle"
    /\ NoFrame
    /\ NoPipeline
    /\ raw_name \in Texts
    /\ all_members = <<>>

\* _extract_member_info: "name = normalize_text(raw_name)"
extract_member_info ==
    /\ all_members = <<>>
    /\ all_members' = <<[name |-> normalize_text(raw_name)]>>
    /\ UNCHANGED <<store, uploader, frame, pipeline, raw_name>>

\* save_to_csv of the links collector: "Check for character encoding
\* issues" and write member_links.csv
save_member_links ==
    /\ all_members # <<>>
    /\ log = ""
    /\ log' = IF \E k \in 1..Len(all_members) :
                    all_members[k].name # normalize_text(all_members[k].name)
              THEN "Warning: Character encoding issue detected"
              ELSE "Saved member links"
    /\ UNCHANGED <<store, uploader, frame, credentials, pc, upload, xml,
                   fetched, data, csv, links>>

LinksNext ==
    \/ extract_member_info
    \/ save_member_links

\* one run of the links collector
LinksSpec == LinksInit /\ [][LinksNext]_vars

(***************************************************************************)
(* Properties of the matcher and the sink                                  *)
(***************************************************************************)
\* the frame shown is one of process_records
Matched == op \in {"process_records", "upload_data"}

ValidName(n) == ~isna(n) /\ n # badvalue

Found(r) == r.member_full_name \in DOMAIN member_id_mapping

IsCurrentYear(r) ==
    int(r.report_year).ok /\ int(r.report_year).val = current_year

\* number of rows up to row i that were not skipped: the place of row i in
\* the output batch
Place(i) == Cardinality({j \in 1..i : j \notin records_to_skip})

\* row i of the input is row Place(i) of the output and carries the id
AdmittedWith(i, id) ==
    /\ i \notin records_to_skip
    /\ Len(returned) >= Place(i)
    /\ returned[Place(i)] = [df[i] EXCEPT !.internal_unique_id = id]

\* r is the filing x (rows of the tables have no row number)
SameFiling(r, x) ==
    /\ "member_full_name" \in DOMAIN r
    /\ r.member_full_name = x.member_full_name
    /\ r.report_year = x.report_year

InSeq(rows, x) == \E k \in 1..Len(rows) : SameFiling(rows[k], x)

\* C1: a record whose member_full_name is a key of member_index gets the
\* mapped id and is in the output batch, whatever its report_year
C1_FoundIsAdmitted ==
    Matched =>
        \A i \in 1..Len(df) :
            Found(df[i]) =>
                AdmittedWith(i, member_id_mapping[df[i].member_full_name])

C1_Witness ==
    /\ op = "process_records"
    /\ \E i \in 1..Len(df) :
          /\ Found(df[i]) /\ ~IsCurrentYear(df[i])
          /\ returned[Place(i)].internal_unique_id = 7

UnknownEarlier(i) ==
    /\ ValidName(df[i].member_full_name)
    /\ ~Found(df[i])
    /\ ~IsCurrentYear(df[i])

\* C3: a record with a valid member name that is not in member_index and
\* whose report_year is not the current year is skipped: it is not in the
\* output batch, it is not passed to an insert and it is not in the table
C3_UnknownEarlierSkipped ==
    Matched =>
        \A i \in 1..Len(df) :
            UnknownEarlier(i) =>
                /\ i \in records_to_skip
                /\ ~InSeq(returned, df[i])
                /\ ~InSeq(submitted, df[i])
                /\ ~InSeq(house_travel_reports, df[i])

C3_Witness ==
    /\ op = "upload_data"
    /\ \E i \in 1..Len(df) : UnknownEarlier(i) /\ member_id_mapping # EmptyDict
    /\ submitted # <<>>
    /\ house_travel_reports # <<>>

\* C4: a record whose member name is missing or 'badvalue' is skipped, also
\* in the current year: it gets no id and is not in the output batch
C4_InvalidNameSkipped ==
    Matched =>
        \A i \in 1..Len(df) :
            ~ValidName(df[i].member_full_name) =>
                /\ i \in records_to_skip
                /\ result_df[i].internal_unique_id = Null
                /\ \A k \in 1..Len(returned) :
                      returned[k].member_full_name # df[i].member_full_name

C4_Witness ==
    /\ op = "process_records"
    /\ returned # <<>>
    /\ \E i \in 1..Len(df) :
          /\ df[i].member_full_name = badvalue
          /\ IsCurrentYear(df[i])
          /\ i \in records_to_skip

\* the rows of the input that are not to be skipped, in their order
Kept(rows) ==
    LET Keep(r) ==
            /\ ValidName(r.member_full_name)
            /\ (Found(r) \/ IsCurrentYear(r))
    IN  SelectSeq(rows, Keep)

\* C5: the output batch is the input without the skipped records, each kept
\* record once and in the order of the input
C5_OutputIsInputWithoutSkipped ==
    Matched =>
        /\ Len(returned) = Len(Kept(df))
        /\ \A k \in 1..Len(returned) :
              [returned[k] EXCEPT !.internal_unique_id = Null] = Kept(df)[k]

C5_Witness ==
    /\ op = "process_records"
    /\ Len(df) = 2
    /\ records_to_skip = {1}
    /\ Len(returned) = 1

\* C6: every record upload_data passes to an insert carries an id that is
\* not null: an id of member_index or 0
C6_SubmittedHaveId ==
    op = "upload_data" =>
        \A k \in 1..Len(submitted) :
            /\ "internal_unique_id" \in DOMAIN submitted[k]
            /\ submitted[k].internal_unique_id # Null
            /\ \/ submitted[k].internal_unique_id = 0
               \/ \E n \in DOMAIN member_id_mapping :
                     member_id_mapping[n] = submitted[k].internal_unique_id

C6_Witness ==
    /\ op = "upload_data"
    /\ \E j, k \in 1..Len(submitted) :
          /\ submitted[j].internal_unique_id = 7
          /\ submitted[k].internal_unique_id = 0
          /\ "member_full_name" \in DOMAIN submitted[k]

OneToOne(m) == \A a, b \in DOMAIN m : a # b => m[a] # m[b]

\* C7: staff_index maps each name to one id, no id is held by two names,
\* and the id of a name is never replaced, whatever load_staff_details and
\* process_records calls are made
C7_StaffIndexOneToOne ==
    [][/\ \A n \in DOMAIN staff_id_mapping :
             /\ n \in DOMAIN staff_id_mapping'
             /\ staff_id_mapping'[n] = staff_id_mapping[n]
       /\ OneToOne(staff_id_mapping')]_vars

\* the filer name process_records builds for a row
FilerName(r) == strip(r.filer_first_name \o <<" ">> \o r.filer_last_name)

\* the entries of a queue q for the staff name n
EntriesFor(q, n) == {k \in 1..Len(q) : q[k].staff_full_name = n}

\* rows i < j of the batch are kept, carry the same filer name and different
\* member names, and row i is the first kept row with that filer name
SameFilerTwice(i, j) ==
    /\ i < j
    /\ i \notin records_to_skip' /\ j \notin records_to_skip'
    /\ HasFiler(df'[i].filer_first_name, df'[i].filer_last_name)
    /\ FilerName(df'[i]) = FilerName(df'[j])
    /\ df'[i].member_full_name # df'[j].member_full_name
    /\ \A h \in 1..(i - 1) :
          h \in records_to_skip' \/ FilerName(df'[h]) # FilerName(df'[i])

NumberOf(id) ==
    IF /\ Len(id) = 9
       /\ SubSeq(id, 1, 5) = <<"s", "t", "a", "f", "f">>
       /\ \A k \in 6..9 : IsDigit(id[k])
    THEN 1000 * DigitVal(id[6]) + 100 * DigitVal(id[7])
         + 10 * DigitVal(id[8]) + DigitVal(id[9])
    ELSE 0 - 1

\* the first kept row of the batch with filer name n
FirstRow(n) ==
    CHOOSE i \in 1..Len(df) :
        /\ i \notin records_to_skip /\ FilerName(df[i]) = n
        /\ \A j \in 1..(i - 1) :
              j \in records_to_skip \/ FilerName(df[j]) # n

\* the ids allocated so far are staffNNNN with consecutive numbers, the last
\* one below next_staff_sequence; the entries queued by a call carry the
\* last ids, in the order their names come first in the batch
C9_State ==
    /\ \A k \in 1..Len(session_ids) : NumberOf(session_ids[k]) >= 1
    /\ \A k \in 1..(Len(session_ids) - 1) :
          NumberOf(session_ids[k + 1]) = NumberOf(session_ids[k]) + 1
    /\ session_ids # <<>> =>
          next_staff_num = NumberOf(session_ids[Len(session_ids)]) + 1
    /\ op = "process_records" =>
          /\ Len(staff_to_insert) <= Len(session_ids)
          /\ \A k \in 1..Len(staff_to_insert) :
                staff_to_insert[k].unique_staff_id =
                    session_ids[Len(session_ids) - Len(staff_to_insert) + k]
          /\ \A k, l \in 1..Len(staff_to_insert) :
                k < l => FirstRow(staff_to_insert[k].staff_full_name)
                            < FirstRow(staff_to_insert[l].staff_full_name)

\* a call allocates the numbers from the value next_staff_sequence has after
\* the load, one by one
C9_Step ==
    op' = "process_records" =>
        /\ Len(session_ids') = Len(session_ids) + Len(staff_to_insert')
        /\ \A k \in 1..Len(staff_to_insert') :
              NumberOf(staff_to_insert'[k].unique_staff_id)
                  = StaffUsed(io'.select_staff).next + k - 1
        /\ next_staff_num' =
              StaffUsed(io'.select_staff).next + Len(staff_to_insert')

IsStaffDigits(id) ==
    /\ Len(id) > 5
    /\ SubSeq(id, 1, 5) = <<"s", "t", "a", "f", "f">>
    /\ \A k \in 6..Len(id) : IsDigit(id[k])

\* the highest numeric suffix among the staff ids of a table, 0 if none
HighestSuffix(rows) ==
    LET nums == { DigitsVal(SubSeq(rows[k].unique_staff_id, 6,
                                   Len(rows[k].unique_staff_id))) :
                    k \in {j \in 1..Len(rows) :
                             IsStaffDigits(rows[j].unique_staff_id)} }
    IN  IF nums = {} THEN 0
        ELSE CHOOSE m \in nums : \A x \in nums : x <= m

\* C10: after the staff table was loaded next_staff_sequence is one more
\* than the highest numeric suffix of the staff ids in storage, 1 if there
\* is none, for every content of the table
C10_NextAfterLoad ==
    (op = "load_staff_details" /\ io.select_staff) =>
        next_staff_num = HighestSuffix(member_staff) + 1

\* the staff index process_records starts from: loaded when still empty
StaffIndexBefore == StaffUsed(io'.select_staff).map

\* C11: every kept record whose filer full name is non-empty, differs from
\* the member name and is not yet a key of staff_index gets a staff id: the
\* name is put into staff_index and a StaffEntry is queued for it, also when
\* the name is a single word
C11_NewFilerGetsStaffId ==
    [][op' = "process_records" =>
        \A i \in 1..Len(df') :
            (/\ i \notin records_to_skip'
             /\ FilerName(df'[i]) # <<>>
             /\ FilerName(df'[i]) # df'[i].member_full_name
             /\ FilerName(df'[i]) \notin DOMAIN StaffIndexBefore)
            => /\ FilerName(df'[i]) \in DOMAIN staff_id_mapping'
               /\ EntriesFor(staff_to_insert', FilerName(df'[i])) # {}]_vars

\* C12: no staff id is allocated and no StaffEntry is queued for a record
\* whose filer name is its member name: every queued entry has a kept record
\* of the batch with that filer name and another member name
C12_NoStaffForSelfFiler ==
    [][op' = "process_records" =>
        \A k \in 1..Len(staff_to_insert') :
            \E i \in 1..Len(df') :
                /\ i \notin records_to_skip'
                /\ FilerName(df'[i]) = staff_to_insert'[k].staff_full_name
                /\ FilerName(df'[i]) # df'[i].member_full_name]_vars

\* row i of the batch is kept and is one that makes the code create the
\* staff name n: both filer names are there, and the filer of a found member
\* is not the member
Triggers(i, n) ==
    /\ i \notin records_to_skip
    /\ HasFiler(df[i].filer_first_name, df[i].filer_last_name)
    /\ FilerName(df[i]) = n
    /\ Found(df[i]) => n # df[i].member_full_name

\* the record that triggered the creation of the entry for n: the first one
TriggerRow(n) ==
    CHOOSE i \in 1..Len(df) :
        Triggers(i, n) /\ \A h \in 1..(i - 1) : ~Triggers(h, n)

\* C13: a queued StaffEntry carries the member id resolved for the record
\* that triggered it when that record is admitted (member found), and null,
\* not 0, when it is admit-unknown
C13_EntryCarriesMemberId ==
    op = "process_records" =>
        \A k \in 1..Len(staff_to_insert) :
            LET e == staff_to_insert[k]
            IN  /\ \E i \in 1..Len(df) : Triggers(i, e.staff_full_name)
                /\ LET t == TriggerRow(e.staff_full_name)
                       name == df[t].member_full_name
                   IN  IF Found(df[t])
                       THEN /\ e.member_id = member_id_mapping[name]
                            /\ e.member_id = result_df[t].internal_unique_id
                       ELSE /\ e.member_id = Null
                            /\ e.member_id # 0
                            /\ result_df[t].internal_unique_id = 0

C13_Witness ==
    /\ op = "process_records"
    /\ Len(staff_to_insert) = 2
    /\ staff_to_insert[1].member_id = 7
    /\ staff_to_insert[2].member_id = Null
    /\ Found(df[1]) /\ ~Found(df[2])

LastSubmitted(n) == SubSeq(submitted, Len(submitted) - n + 1, Len(submitted))

\* C15: when the batch insert of upload_data fails, every record of the
\* batch is passed to an insert of its own, in the order of the batch, and
\* the records the store takes that way are in the table
C15_EachRecordTriedAlone ==
    (op = "upload_data" /\ records # <<>> /\ ~io.insert_batch) =>
        /\ Len(submitted) >= 2 * Len(records)
        /\ LastSubmitted(Len(records)) = records
        /\ \A i \in io.accepted :
              \E k \in 1..Len(house_travel_reports) :
                  house_travel_reports[k] = records[i]

\* C16: with a single writer (one uploader at a time on the store) no two
\* rows of the staff table carry the same staff id for different names
C16_SingleWriterNoDuplicateIds ==
    \A j, k \in 1..Len(member_staff) :
        member_staff[j].unique_staff_id = member_staff[k].unique_staff_id
            => member_staff[j].staff_full_name = member_staff[k].staff_full_name

\* C17: the sink writes with a plain insert and enforces no uniqueness of
\* docid: the rows stored before stay as they are, a batch the store takes
\* adds one row per record, and records taken one by one add one row each,
\* whatever docids the table and the batch hold
C17_DuplicateDocidsKept ==
    [][op' = "upload_data" =>
        /\ Len(house_travel_reports') >= Len(house_travel_reports)
        /\ SubSeq(house_travel_reports', 1, Len(house_travel_reports))
              = house_travel_reports
        /\ (records' # <<>> /\ io'.insert_batch) =>
              house_travel_reports' = house_travel_reports \o records'
        /\ (records' # <<>> /\ ~io'.insert_batch /\ io'.insert_minimal) =>
              /\ Len(house_travel_reports') =
                    Len(house_travel_reports) + io'.stored + 1
                        + Cardinality(io'.accepted)
              /\ \A i \in io'.accepted :
                    \E k \in (Len(house_travel_reports) + io'.stored + 2)
                                ..Len(house_travel_reports') :
                        house_travel_reports'[k] = records'[i]]_vars

C17_Witness ==
    /\ op = "upload_data"
    /\ io.insert_batch
    /\ Len(records) = 1
    /\ Len(house_travel_reports) = 2
    /\ house_travel_reports[2] = records[1]
    /\ house_travel_reports[1].internal_unique_id = 7
    /\ house_travel_reports[2].internal_unique_id = 7
    /\ "docid" \in DOMAIN house_travel_reports[1]
    /\ house_travel_reports[1].docid = house_travel_reports[2].docid

\* a cell without a value: NaN, None or the empty string
Empty(v) == v = <<>> \/ isna(v)

\* C18: in every record the sink passes to an insert a textual field is
\* never empty or missing (an empty or absent one holds 'badvalue') and a
\* numeric field holds a number or null, never an empty string
C18_NoEmptyFields ==
    op = "upload_data" =>
        \A k \in 1..Len(submitted) :
            \A c \in DOMAIN submitted[k] :
                IF c \in numeric_columns
                THEN submitted[k][c] \in Int
                ELSE ~Empty(submitted[k][c])

\* C19: in a run without the storage credentials no record is scraped,
\* exported or matched: the collector holds no record, the export file has
\* no row and no upload_data call is made
C19_CredentialsCheckedFirst ==
    ~credentials =>
        /\ data = <<>>
        /\ csv = <<>>
        /\ op # "upload_data"

\* the Travel elements of the zip files that were read, in the order of
\* the records of the collector
Elements ==
    Join([k \in 1..Len(fetched) |->
             IF fetched[k] = "ok" THEN xml[k] ELSE <<>>])

\* the places of the commas in a name
Commas(s) == {i \in 1..Len(s) : s[i] = ","}

\* no whitespace at either end
Trimmed(t) == t = <<>> \/ (Head(t) # " " /\ t[Len(t)] # " ")

\* C20: of a member name "Last, First" with exactly one comma the last name
\* is the trimmed text left of the comma, the first name the trimmed text
\* right of it and member_full_name is first name, one space, last name; of
\* a name without a comma the whole string is the last name and the full
\* name and the first name is empty
C20_MemberNameSplit ==
    \A i \in 1..Len(data) :
        LET name == strip(Elements[i].MemberName)
            r == data[i]
        IN  /\ Cardinality(Commas(name)) = 1 =>
                  LET k == CHOOSE j \in Commas(name) : TRUE
                  IN  /\ r.member_last_name = strip(SubSeq(name, 1, k - 1))
                      /\ r.member_first_name
                            = strip(SubSeq(name, k + 1, Len(name)))
                      /\ Trimmed(r.member_last_name)
                      /\ Trimmed(r.member_first_name)
                      /\ r.member_full_name = r.member_first_name
                            \o <<" ">> \o r.member_last_name
            /\ Commas(name) = {} =>
                  /\ r.member_last_name = name
                  /\ r.member_full_name = name
                  /\ r.member_first_name = <<>>

C20_Witness ==
    /\ pc = "extracted"
    /\ Len(data) = 2
    /\ Elements[1].MemberName = <<" ", "Doe", " ", ",", " ", " ", "Jane", " ">>
    /\ data[1].member_last_name = <<"Doe">>
    /\ data[1].member_first_name = <<"Jane">>
    /\ data[1].member_full_name = <<"Jane", " ", "Doe">>
    /\ Elements[2].MemberName = <<"Jane", " ", "Doe">>
    /\ data[2].member_last_name = <<"Jane", " ", "Doe">>
    /\ data[2].member_first_name = <<>>

\* the destination of element i as the normalizer gets it
DestinationOf(i) == strip(Elements[i].Destination)

\* city and state of record i are what the normalizer is to make of a
\* destination: with a comma the trimmed text left of the first comma and
\* the trimmed text right of it, without one the whole string and 'FX'
DestinationSplit(i) ==
    LET name == DestinationOf(i)
        r == data[i]
    IN  IF Commas(name) # {}
        THEN LET k == CHOOSE j \in Commas(name) :
                          \A h \in Commas(name) : j <= h
             IN  /\ r.destination_city = strip(SubSeq(name, 1, k - 1))
                 /\ r.destination_state
                       = strip(SubSeq(name, k + 1, Len(name)))
                 /\ Trimmed(r.destination_city)
                 /\ Trimmed(r.destination_state)
        ELSE /\ r.destination_city = name
             /\ r.destination_state = FX

\* C21 as stated: the split of the destination, and 'FX' is the state of
\* comma-less destinations only
C21_FXOnlyWithoutComma ==
    \A i \in 1..Len(data) :
        /\ DestinationSplit(i)
        /\ data[i].destination_state = FX => Commas(DestinationOf(i)) = {}

\* C21 amended: the split of the destination; every comma-less destination
\* gets the state 'FX', and a destination with a comma gets 'FX' only when
\* the trimmed text right of its first comma is 'FX'
C21_DestinationSplit ==
    \A i \in 1..Len(data) :
        /\ DestinationSplit(i)
        /\ Commas(DestinationOf(i)) = {} => data[i].destination_state = FX
        /\ (data[i].destination_state = FX /\ Commas(DestinationOf(i)) # {})
              => \E k \in Commas(DestinationOf(i)) :
                    /\ \A h \in 1..(k - 1) : DestinationOf(i)[h] # ","
                    /\ strip(SubSeq(DestinationOf(i), k + 1,
                                    Len(DestinationOf(i)))) = FX

C21_Witness ==
    /\ pc = "extracted"
    /\ Len(data) = 2
    /\ Elements[1].Destination = <<" ", "Rome", " ", ",", " ", " ", "IT", " ">>
    /\ data[1].destination_city = <<"Rome">>
    /\ data[1].destination_state = <<"IT">>
    /\ Elements[2].Destination = <<"Paris">>
    /\ data[2].destination_city = <<"Paris">>
    /\ data[2].destination_state = FX

\* C22: normalize_text is idempotent and total: the name it returned for a
\* text is a string it maps to itself, for every text, so the check of
\* save_to_csv never warns
C22_NormalizeIdempotent ==
    \A k \in 1..Len(all_members) :
        /\ all_members[k].name = normalize_text(raw_name)
        /\ all_members[k].name \in Seq(Ascii \ {"?"})
        /\ normalize_text(all_members[k].name) = all_members[k].name
        /\ log # "Warning: Character encoding issue detected"

C22_Witness ==
    /\ raw_name = <<"o_diaeresis", "?", "nbsp">>
    /\ all_members = <<[name |-> <<"o">>]>>
    /\ log = "Saved member links"

\* C23: process_records does not write member_index: a loaded index is left
\* as it is, an empty one is at most filled from the roster by the load at
\* the start of the call, and no member name of the batch that is not in
\* the roster becomes a key
C23_MemberIndexReadOnly ==
    [][op' = "process_records" =>
        /\ member_id_mapping # EmptyDict =>
              member_id_mapping' = member_id_mapping
        /\ \A n \in DOMAIN member_id_mapping' :
              \E k \in 1..Len(member_details) :
                  /\ member_details[k].member_full_name = n
                  /\ member_details[k].internal_unique_id
                        = member_id_mapping'[n]
        /\ \A i \in 1..Len(df') :
              (\A k \in 1..Len(member_details) :
                   member_details[k].member_full_name
                       # df'[i].member_full_name)
              => df'[i].member_full_name \notin DOMAIN member_id_mapping'
       ]_vars

C23_Witness ==
    /\ op = "process_records"
    /\ member_id_mapping = (JaneDoe :> 7)
    /\ Len(df) = 2
    /\ df[1].member_full_name = JohnUnknown
    /\ 1 \notin records_to_skip
    /\ returned[1].internal_unique_id = 0
    /\ df[2].member_full_name = JohnUnknown
    /\ 2 \in records_to_skip
    /\ staff_to_insert # <<>>

\* the number after 'staff' in an id of the form 'staff' and digits
Suffix(id) == DigitsVal(SubSeq(id, 6, Len(id)))

\* next_staff_sequence is above the number of every id of staff_index
C24_State ==
    \A n \in DOMAIN staff_id_mapping :
        IsStaffDigits(staff_id_mapping[n])
            => next_staff_num > Suffix(staff_id_mapping[n])

\* no entry of staff_index is removed or remapped and next_staff_sequence
\* does not decrease
C24_Step ==
    /\ \A n \in DOMAIN staff_id_mapping :
          /\ n \in DOMAIN staff_id_mapping'
          /\ staff_id_mapping'[n] = staff_id_mapping[n]
    /\ next_staff_num' >= next_staff_num

\* C24: over the process_records calls of a session staff_index only grows,
\* next_staff_sequence never decreases and is above the numeric suffix of
\* every 'staff'+digits id of staff_index
C24_StaffIndexGrows == []C24_State /\ [][C24_Step]_vars

C24_Witness ==
    /\ op = "process_records"
    /\ io.select_staff
    /\ Len(member_staff) = 2
    /\ Len(staff_to_insert) = 1
    /\ DOMAIN staff_id_mapping = {AnnLee, BobRay}
    /\ staff_id_mapping[AnnLee] = StaffIdOf(1)
    /\ staff_id_mapping[BobRay] = StaffIdOf(2)
    /\ next_staff_num = 3

\* C25: a current-year record whose member is not in member_details is
\* skipped, as the docstring of process_records says: it is not part of the
\* returned records, like an earlier-year record whose member is not found
C25_UnknownCurrentYearSkipped ==
    Matched =>
        \A i \in 1..Len(df) :
            (ValidName(df[i].member_full_name) /\ ~Found(df[i])
                /\ IsCurrentYear(df[i]))
            => /\ i \in records_to_skip
               /\ ~InSeq(returned, df[i])

\* C26: run_pipeline writes to the store only if upload is true and at least
\* one record was extracted: without the upload argument, without links or
\* with an empty record set no uploader is created, no upload_data call is
\* made and no filing or staff row is written
C26_StoreWrittenOnlyOnUpload ==
    (~upload \/ data = <<>>) =>
        /\ house_travel_reports = <<>>
        /\ member_staff = <<>>
        /\ op # "upload_data"
        /\ member_id_mapping = EmptyDict
        /\ staff_id_mapping = EmptyDict
        /\ log # "Error during Supabase upload"

C26_Witness ==
    /\ pc = "complete"
    /\ ~upload
    /\ credentials
    /\ Len(data) = 2
    /\ csv = data
    /\ log = "Skipping Supabase upload"
    /\ house_travel_reports = <<>>
    /\ member_staff = <<>>

\* number of records the years before year k gave that were read
Before(k) ==
    Len(Join([j \in 1..(k - 1) |->
                 IF fetched[j] = "ok" THEN xml[j] ELSE <<>>]))

\* C27: a download, zip or parse failure of one year is skipped: the
\* records of the other years stay and the next year is processed, so every
\* year whose download and parse succeed has all of its records in the
\* collector, in order, and the failed years have none
C27_FailedYearSkipped ==
    fetched # <<>> =>
        /\ Len(data) = Before(Len(xml) + 1)
        /\ \A k \in 1..Len(xml) :
              fetched[k] = "ok" =>
                  \A i \in 1..Len(xml[k]) :
                      data[Before(k) + i] = travel_data(xml[k][i])

C27_Witness ==
    /\ pc = "saved"
    /\ fetched = <<"BadZipFile", "ok">>
    /\ xml[1] # <<>>
    /\ xml[2] # <<>>
    /\ data = process_xml_file(xml[2])
    /\ csv = data

\* number of rows of a sequence that are the record r
Copies(rows, r) == Cardinality({k \in 1..Len(rows) : rows[k] = r})

\* C28: one upload_data call stores each record of its batch at most once,
\* also when the store kept part of a batch insert it reported as failed:
\* the table gains no more copies of a record than the batch holds
C28_StoredAtMostOnce ==
    [][op' = "upload_data" =>
        \A i \in 1..Len(records') :
            Copies(house_travel_reports', records'[i])
                <= Copies(house_travel_reports, records'[i])
                   + Copies(records', records'[i])]_vars

\* C29: every row upload_data adds to the report table is a record of the
\* batch it submitted, on the success path and on the error-handling path
C29_OnlyBatchRecordsAdded ==
    [][op' = "upload_data" =>
        \A k \in (Len(house_travel_reports) + 1)..Len(house_travel_reports') :
            \E i \in 1..Len(records') :
                house_travel_reports'[k] = records'[i]]_vars

\* C30: when process_records has returned, every staff name it gave a new
\* id has a StaffEntry with that id in the staff table, also when the insert
\* of the queued entries failed
C30_AllocatedStaffStored ==
    op = "process_records" =>
        \A k \in 1..Len(staff_to_insert) :
            /\ staff_to_insert[k].staff_full_name \in DOMAIN staff_id_mapping
            /\ \E j \in 1..Len(member_staff) :
                  /\ member_staff[j].staff_full_name
                        = staff_to_insert[k].staff_full_name
                  /\ member_staff[j].unique_staff_id
                        = staff_id_mapping[staff_to_insert[k].staff_full_name]

====
